---- MODULE Spec2Model ----
(***************************************************************************)
(* A model of walk-qds.py: main() scans a source tree for package.xml      *)
(* files, walks the dependencies of one package breadth-first, reads each  *)
(* discovered package's QUALITY_DECLARATION.md and prints an indented      *)
(* report.  One run of main() is one behaviour; the command line and the   *)
(* contents of the source tree are chosen in Init.                         *)
(***************************************************************************)
EXTENDS Integers, Sequences, FiniteSets, TLC

VARIABLES
    recurse,                    \* args.recurse
    exclude,                    \* args.exclude (only membership is used)
    package_name_to_examine,    \* args.package
    source_tree,                \* the directories os.walk(source_path) yields, in order
    pc,                         \* where main() is
    walk_pos,                   \* index of the next directory os.walk yields
    package_name_to_package,    \* name -> Package
    packages_to_examine,        \* deque of names still to expand
    depnames_found,             \* list of names seen so far
    deps_not_found,             \* set of names with no package
    enqueue_log,                \* history: every name ever put on packages_to_examine
    deps_to_print,              \* deque of packages whose declaration is still to read
    strings_to_print,           \* report lines collected so far
    output,                     \* everything print() has written, in order
    exit_code,                  \* the process's exit status once pc = "exit"
    raised,                     \* TRUE when main() ended by an uncaught exception
    run_no,                     \* 1 for the first run on the tree, 2 for a repeated run
    first_output                \* output of the first run, kept for a repeated run

vars == <<recurse, exclude, package_name_to_examine, source_tree, pc, walk_pos,
          package_name_to_package, packages_to_examine, depnames_found,
          deps_not_found, enqueue_log, deps_to_print, strings_to_print, output,
          exit_code, raised, run_no, first_output>>

args == <<recurse, exclude, package_name_to_examine, source_tree>>

-----------------------------------------------------------------------------
(* Bounds of the inputs *)

\* dependency elements + unusual directories + excluded names, all together
MaxSize == 3

\* the directories of the source tree in walk order, by the name each declares
DirNames == <<"R", "A", "B", "C">>

Targets == {"R"}

ExcludeNames == {"R", "B"}

-----------------------------------------------------------------------------
(* Small helpers *)

Range(s) == {s[i] : i \in 1..Len(s)}

NoDuplicates(s) == \A i, j \in 1..Len(s) : i # j => s[i] # s[j]

Reverse(s) == [i \in 1..Len(s) |-> s[Len(s) + 1 - i]]

RECURSIVE SeqsOfLen(_, _)
SeqsOfLen(S, n) ==
    IF n = 0 THEN {<<>>}
    ELSE {Append(s, x) : s \in SeqsOfLen(S, n - 1), x \in S}

\* every ordering of a finite set, as sequences
Orderings(S) == {s \in SeqsOfLen(S, Cardinality(S)) : Range(s) = S}

-----------------------------------------------------------------------------
(* The input files *)

\* one child element of a package.xml root: its tag and its text
Elem(tag, text) == [tag |-> tag, text |-> text]

\* one piece of a line of a declaration: free text, the claim phrase
\* "claims to be in the **Quality Level d**", or the phrase without the bold
\* markers
Text == [kind |-> "text", digit |-> 0]
Claim(d) == [kind |-> "claim", digit |-> d]
PlainClaim(d) == [kind |-> "plainclaim", digit |-> d]

DepElems ==
    {Elem("depend", n) : n \in {"R", "A", "B"}}
        \cup {Elem("build_depend", "C"), Elem("build_depend", "Z"),
              Elem("test_depend", "B")}

\* a declaration with a matching line, different for each package
UsualDoc(name) ==
    CASE name = "R" -> << <<Text, Claim(3)>> >>
      [] name = "A" -> << <<Text>>, <<Claim(2), Text>>, <<Claim(4)>> >>
      [] name = "B" -> << <<Claim(9)>>, <<Claim(1), Text, Claim(4)>> >>
      [] OTHER      -> << <<PlainClaim(1)>>, <<Text, Claim(5), Claim(0)>> >>

\* a declaration in which no line matches
NoLevelDoc == << <<Text>>, <<Claim(6)>>, <<PlainClaim(3)>> >>

Dir(kind, root, exists, lines) ==
    [meta |-> [kind |-> kind, root |-> root],
     qd   |-> [exists |-> exists, lines |-> lines]]

\* the directories that declare `name` at a cost of c
Dirs(name, c) ==
    LET named(deps) == <<Elem("name", name)>> \o deps
    IN  {Dir("xml", named(deps), TRUE, UsualDoc(name)) : deps \in SeqsOfLen(DepElems, c)}
        \cup (IF c = 0 THEN {} ELSE
              {Dir("xml", named(deps), FALSE, <<>>) : deps \in SeqsOfLen(DepElems, c - 1)}
              \cup
              {Dir("xml", named(deps), TRUE, NoLevelDoc) : deps \in SeqsOfLen(DepElems, c - 1)})
        \cup (IF c # 1 THEN {} ELSE
              {Dir("none", <<>>, TRUE, UsualDoc(name)),
               Dir("malformed", <<>>, TRUE, UsualDoc(name)),
               Dir("xml", <<Elem("test_depend", "B")>>, TRUE, UsualDoc(name))})

-----------------------------------------------------------------------------
(* Package *)

Package(name, qd_path, lxml_tree) ==
    [name |-> name, qd_path |-> qd_path, lxml_tree |-> lxml_tree,
     depth |-> 0, children |-> <<>>]

\* d[key] = value
DictSet(d, key, value) ==
    [k \in DOMAIN d \cup {key} |-> IF k = key THEN value ELSE d[k]]

EmptyDict == [k \in {} |-> 0]

-----------------------------------------------------------------------------
(* What print() writes *)

Printed(kind, what, names, spaces, level) ==
    [kind |-> kind, what |-> what, names |-> names, spaces |-> spaces, level |-> level]

ErrorExcluded(name) == Printed("error", "in exclude list", <<name>>, 0, 0)
ErrorNoPackage(name) == Printed("error", "could not find package", <<name>>, 0, 0)
WarnDependencies(names) == Printed("warning", "could not find dependencies", names, 0, 0)
WarnNoDeclaration(name) == Printed("warning", "could not find quality declaration", <<name>>, 0, 0)
WarnNoLevel(name) == Printed("warning", "could not find quality level", <<name>>, 0, 0)

\* '%s%s: %d' % ('  ' * package.depth, package.name, int(groups[0]))
ReportLine(depth, name, level) == Printed("line", "report", <<name>>, 2 * depth, level)

-----------------------------------------------------------------------------
Init ==
    /\ recurse \in BOOLEAN
    /\ package_name_to_examine \in Targets
    /\ exclude \in SUBSET ExcludeNames
    /\ \E c1 \in 0..MaxSize - Cardinality(exclude) :
       \E c2 \in 0..MaxSize - Cardinality(exclude) - c1 :
       \E c3 \in 0..MaxSize - Cardinality(exclude) - c1 - c2 :
       \E c4 \in 0..MaxSize - Cardinality(exclude) - c1 - c2 - c3 :
         source_tree \in {<<d1, d2, d3, d4>> :
                             d1 \in Dirs(DirNames[1], c1), d2 \in Dirs(DirNames[2], c2),
                             d3 \in Dirs(DirNames[3], c3), d4 \in Dirs(DirNames[4], c4)}
    /\ pc = "start"
    /\ walk_pos = 1
    /\ package_name_to_package = EmptyDict
    /\ packages_to_examine = <<>>
    /\ depnames_found = <<>>
    /\ deps_not_found = {}
    /\ enqueue_log = <<>>
    /\ deps_to_print = <<>>
    /\ strings_to_print = <<>>
    /\ output = <<>>
    /\ exit_code = -1
    /\ raised = FALSE
    /\ run_no = 1
    /\ first_output = <<>>

\* a run that leaves the target out of the check against the exclude list
TargetNeverExcluded == FALSE

\* package_name_to_examine in args.exclude
TargetExcluded == package_name_to_examine \in exclude

\* if package_name_to_examine in args.exclude: print(...); return 1
CheckExclude ==
    /\ pc = "start"
    /\ IF TargetExcluded
       THEN /\ output' = Append(output, ErrorExcluded(package_name_to_examine))
            /\ exit_code' = 1
            /\ pc' = "exit"
       ELSE /\ pc' = "scan"
            /\ UNCHANGED <<output, exit_code>>
    /\ UNCHANGED <<args, walk_pos, package_name_to_package, packages_to_examine,
                   depnames_found, deps_not_found, enqueue_log, deps_to_print,
                   strings_to_print, raised, run_no, first_output>>

\* the name under which a parsed package.xml is registered: the text of the first
\* child of the root whose tag is 'name' (none: the empty sequence)
DeclaredName(root) ==
    LET named == {i \in 1..Len(root) : root[i].tag = "name"}
    IN  IF named = {} THEN <<>>
        ELSE <<root[CHOOSE i \in named : \A j \in named : i <= j].text>>

\* one turn of the os.walk loop on a directory whose package.xml, if any, parses
Registered(table, i, dir) ==
    IF dir.meta.kind = "none" THEN table
    ELSE IF DeclaredName(dir.meta.root) = <<>> THEN table
    ELSE LET name == DeclaredName(dir.meta.root)[1]
         IN  DictSet(table, name, Package(name, i, dir.meta.root))

ScanDir ==
    /\ pc = "scan"
    /\ walk_pos <= Len(source_tree)
    /\ source_tree[walk_pos].meta.kind # "malformed"
    /\ package_name_to_package' =
           Registered(package_name_to_package, walk_pos, source_tree[walk_pos])
    /\ walk_pos' = walk_pos + 1
    /\ UNCHANGED <<args, pc, packages_to_examine, depnames_found, deps_not_found,
                   enqueue_log, deps_to_print, strings_to_print, output, exit_code,
                   raised, run_no, first_output>>

\* lxml.etree.parse raises XMLSyntaxError, which nothing catches: the interpreter
\* prints a traceback and exits with status 1
ScanParseError ==
    /\ pc = "scan"
    /\ walk_pos <= Len(source_tree)
    /\ source_tree[walk_pos].meta.kind = "malformed"
    /\ raised' = TRUE
    /\ exit_code' = 1
    /\ pc' = "exit"
    /\ UNCHANGED <<args, walk_pos, package_name_to_package, packages_to_examine,
                   depnames_found, deps_not_found, enqueue_log, deps_to_print,
                   strings_to_print, output, run_no, first_output>>

\* if package_name_to_examine not in package_name_to_package: print(...); return 2
\* otherwise the work queue and the found list start with the package
CheckTarget ==
    /\ pc = "scan"
    /\ walk_pos > Len(source_tree)
    /\ IF package_name_to_examine \notin DOMAIN package_name_to_package
       THEN /\ output' = Append(output, ErrorNoPackage(package_name_to_examine))
            /\ exit_code' = 2
            /\ pc' = "exit"
            /\ UNCHANGED <<packages_to_examine, depnames_found, enqueue_log>>
       ELSE /\ packages_to_examine' = <<package_name_to_examine>>
            /\ depnames_found' = <<package_name_to_examine>>
            /\ enqueue_log' = <<package_name_to_examine>>
            /\ pc' = "discover"
            /\ UNCHANGED <<output, exit_code>>
    /\ deps_not_found' = {}
    /\ UNCHANGED <<args, walk_pos, package_name_to_package, deps_to_print,
                   strings_to_print, raised, run_no, first_output>>

DependTags == {"depend", "build_depend"}

\* a walk that does not remember what it has seen
NeverFound(depname, found) == FALSE

\* if depname in depnames_found: continue
AlreadyFound(depname, found) == depname \in Range(found)

\* if depname in args.exclude: continue
Excluded(depname) == depname \in exclude

\* a link that gives the dependency the depth of its parent
LinkedSameDepth(table, parent, depname) ==
    [table EXCEPT ![depname].depth = table[parent].depth,
                  ![parent].children = Append(@, depname)]

\* package_name_to_package[depname].depth = package.depth + 1
\* package.children.append(package_name_to_package[depname])
Linked(table, parent, depname) ==
    [table EXCEPT ![depname].depth = table[parent].depth + 1,
                  ![parent].children = Append(@, depname)]

\* a walk that expands every dependency whatever --recurse says
EnqueuedAlways(queue, depname) == Append(queue, depname)

\* if args.recurse: packages_to_examine.append(depname)
Enqueued(queue, depname) == IF recurse THEN Append(queue, depname) ELSE queue

\* the body of the loop over the children of a package's root, for one child
VisitChild(st, parent, child) ==
    IF child.tag \notin DependTags THEN st
    ELSE LET depname == child.text
         IN  IF AlreadyFound(depname, st.depnames_found) THEN st
             ELSE IF Excluded(depname) THEN st
             ELSE IF depname \in DOMAIN st.package_name_to_package
             THEN [st EXCEPT
                     !.depnames_found = Append(@, depname),
                     !.package_name_to_package = Linked(@, parent, depname),
                     !.packages_to_examine = Enqueued(@, depname),
                     !.enqueue_log = Enqueued(@, depname)]
             ELSE [st EXCEPT
                     !.depnames_found = Append(@, depname),
                     !.deps_not_found = @ \cup {depname}]

\* for child in package.lxml_tree.getroot().getchildren(): ...  from child i on
RECURSIVE VisitChildren(_, _, _, _)
VisitChildren(st, parent, children, i) ==
    IF i > Len(children) THEN st
    ELSE VisitChildren(VisitChild(st, parent, children[i]), parent, children, i + 1)

\* one turn of `while packages_to_examine`
Expand ==
    /\ pc = "discover"
    /\ packages_to_examine # <<>>
    /\ LET parent == Head(packages_to_examine)
           st == VisitChildren(
                    [depnames_found |-> depnames_found,
                     package_name_to_package |-> package_name_to_package,
                     packages_to_examine |-> Tail(packages_to_examine),
                     deps_not_found |-> deps_not_found,
                     enqueue_log |-> enqueue_log],
                    parent, package_name_to_package[parent].lxml_tree, 1)
       IN  /\ depnames_found' = st.depnames_found
           /\ package_name_to_package' = st.package_name_to_package
           /\ packages_to_examine' = st.packages_to_examine
           /\ deps_not_found' = st.deps_not_found
           /\ enqueue_log' = st.enqueue_log
    /\ UNCHANGED <<args, pc, walk_pos, deps_to_print, strings_to_print, output,
                   exit_code, raised, run_no, first_output>>

\* ', '.join(deps_not_found): the names in the order the set yields them, which
\* the hash of each string decides anew in each interpreter
JoinOrders(names) == Orderings(names)

\* the work queue is empty: warn about the dependencies not found, then start the
\* walk over the declarations with the package itself
WarnNotFound ==
    /\ pc = "discover"
    /\ packages_to_examine = <<>>
    /\ \E order \in JoinOrders(deps_not_found) :
         output' = IF deps_not_found = {} THEN output
                   ELSE Append(output, WarnDependencies(order))
    /\ deps_to_print' = <<package_name_to_examine>>
    /\ strings_to_print' = <<>>
    /\ pc' = "declare"
    /\ UNCHANGED <<args, walk_pos, package_name_to_package, packages_to_examine,
                   depnames_found, deps_not_found, enqueue_log, exit_code, raised,
                   run_no, first_output>>

\* re.match(r'.*claims to be in the \*\*Quality Level ([1-5])\*\*', line): the
\* groups of the match (the digit of the last claim phrase of the line that has
\* the bold markers and a digit from 1 to 5), none when nothing matches
QualityLevelMatch(line) ==
    LET hits == {i \in 1..Len(line) : line[i].kind = "claim" /\ line[i].digit \in 1..5}
    IN  IF hits = {} THEN <<>>
        ELSE <<line[CHOOSE i \in hits : \A j \in hits : j <= i].digit>>

\* for line in infp: ... break: the groups of the first line that matches, none
\* when the loop runs to its else
FirstMatch(lines) ==
    LET hits == {i \in 1..Len(lines) : QualityLevelMatch(lines[i]) # <<>>}
    IN  IF hits = {} THEN <<>>
        ELSE QualityLevelMatch(lines[CHOOSE i \in hits : \A j \in hits : i <= j])

\* a report line printed as soon as it is known
PrintNow(out, strings, line) ==
    [output |-> Append(out, line), strings_to_print |-> strings]

\* strings_to_print.append(...): a report line is kept, not printed
Collect(out, strings, line) ==
    [output |-> out, strings_to_print |-> Append(strings, line)]

\* the children put at the right end of the deque
ExtendRight(deque, children) == deque \o children

\* deps_to_print.extendleft(package.children): each child is put at the left end in
\* turn, so the children end up in front, in reverse
ExtendLeft(deque, children) == Reverse(children) \o deque

\* one turn of `while deps_to_print`
ReadDeclaration ==
    /\ pc = "declare"
    /\ deps_to_print # <<>>
    /\ LET package == package_name_to_package[Head(deps_to_print)]
           qd == source_tree[package.qd_path].qd
           groups == FirstMatch(qd.lines)
           kept == Collect(output, strings_to_print,
                           ReportLine(package.depth, package.name, groups[1]))
       IN  IF ~qd.exists
           THEN /\ output' = Append(output, WarnNoDeclaration(package.name))
                /\ deps_to_print' = Tail(deps_to_print)
                /\ UNCHANGED strings_to_print
           ELSE /\ IF groups = <<>>
                   THEN /\ output' = Append(output, WarnNoLevel(package.name))
                        /\ UNCHANGED strings_to_print
                   ELSE /\ output' = kept.output
                        /\ strings_to_print' = kept.strings_to_print
                /\ deps_to_print' = ExtendLeft(Tail(deps_to_print), package.children)
    /\ UNCHANGED <<args, pc, walk_pos, package_name_to_package, packages_to_examine,
                   depnames_found, deps_not_found, enqueue_log, exit_code, raised,
                   run_no, first_output>>

\* [print(s) for s in strings_to_print]; return 0
PrintReport ==
    /\ pc = "declare"
    /\ deps_to_print = <<>>
    /\ output' = output \o strings_to_print
    /\ exit_code' = 0
    /\ pc' = "exit"
    /\ UNCHANGED <<args, walk_pos, package_name_to_package, packages_to_examine,
                   depnames_found, deps_not_found, enqueue_log, deps_to_print,
                   strings_to_print, raised, run_no, first_output>>

\* the tool is started again on the same tree with the same arguments
Rerun ==
    /\ pc = "exit"
    /\ run_no = 1
    /\ run_no' = 2
    /\ first_output' = output
    /\ pc' = "start"
    /\ walk_pos' = 1
    /\ package_name_to_package' = EmptyDict
    /\ packages_to_examine' = <<>>
    /\ depnames_found' = <<>>
    /\ deps_not_found' = {}
    /\ enqueue_log' = <<>>
    /\ deps_to_print' = <<>>
    /\ strings_to_print' = <<>>
    /\ output' = <<>>
    /\ exit_code' = -1
    /\ raised' = FALSE
    /\ UNCHANGED args

Next ==
    \/ CheckExclude
    \/ ScanDir
    \/ ScanParseError
    \/ CheckTarget
    \/ Expand
    \/ WarnNotFound
    \/ ReadDeclaration
    \/ PrintReport

\* one run of the tool
Spec == Init /\ [][Next]_vars

\* two runs on the same tree, one after the other
NextTwice == Next \/ Rerun

SpecTwice == Init /\ [][NextTwice]_vars

\* one run of the tool, which goes on as long as it has a step to take
FairSpec == Spec /\ WF_vars(Next)

-----------------------------------------------------------------------------
(* What the inputs say, read off the source tree and the command line *)

\* the directories whose package.xml parses and names a package
Naming(tree) ==
    {i \in 1..Len(tree) : tree[i].meta.kind = "xml" /\ DeclaredName(tree[i].meta.root) # <<>>}

\* the package names the tree declares
Declares(tree) == {DeclaredName(tree[i].meta.root)[1] : i \in Naming(tree)}

\* the directory of a declared name: the last one in walk order that declares it
DirOf(tree, name) ==
    CHOOSE i \in Naming(tree) :
        /\ DeclaredName(tree[i].meta.root)[1] = name
        /\ \A j \in Naming(tree) : DeclaredName(tree[j].meta.root)[1] = name => j <= i

\* the names a declared package depends on
DependsOn(tree, name) ==
    LET root == tree[DirOf(tree, name)].meta.root
    IN  {root[i].text : i \in {k \in 1..Len(root) : root[k].tag \in {"depend", "build_depend"}}}

\* the dependency graph: for each package of the tree, the packages of the tree
\* it depends on that are not excluded
Graph ==
    LET declared == Declares(source_tree)
    IN  [p \in declared |-> (DependsOn(source_tree, p) \cap declared) \ exclude]

Edge(p, q) == p \in DOMAIN Graph /\ q \in Graph[p]

\* the layers of a graph from the target: the packages at 0, 1, 2 ... edges from it
\* and no fewer, as far as there are any
RECURSIVE LayersFrom(_, _)
LayersFrom(graph, layers) ==
    LET seen == UNION Range(layers)
        next == UNION {graph[p] : p \in layers[Len(layers)]} \ seen
    IN  IF next = {} THEN layers ELSE LayersFrom(graph, Append(layers, next))

Layers ==
    LET graph == Graph
    IN  LayersFrom(graph, <<{package_name_to_examine} \cap DOMAIN graph>>)

ReachableIn(layers) == UNION Range(layers)

DistanceIn(layers, p) == (CHOOSE k \in 1..Len(layers) : p \in layers[k]) - 1

Reachable == ReachableIn(Layers)

Distance(p) == DistanceIn(Layers, p)

\* the discovered names that are packages of the tree
Resolved == Range(depnames_found) \cap DOMAIN package_name_to_package

\* the names taken off the work queue so far
Dequeued == SubSeq(enqueue_log, 1, Len(enqueue_log) - Len(packages_to_examine))

DiscoveryStarted == pc \in {"discover", "declare"} \/ (pc = "exit" /\ exit_code = 0)

DiscoveryDone == pc = "declare" \/ (pc = "exit" /\ exit_code = 0)

Finished == pc = "exit" /\ exit_code = 0 /\ ~raised

\* the report lines printed so far, in order
RECURSIVE Lines(_)
Lines(out) ==
    IF out = <<>> THEN <<>>
    ELSE IF Head(out).kind = "line" THEN <<Head(out)>> \o Lines(Tail(out))
    ELSE Lines(Tail(out))

HasLine(name) == \E i \in 1..Len(output) : output[i].kind = "line" /\ output[i].names = <<name>>

Declaration(name) == source_tree[package_name_to_package[name].qd_path].qd

-----------------------------------------------------------------------------
(* C1 *)

\* C1: whatever the dependency graph (cycles and self-dependencies included), no
\* name is added to depnames_found twice and no name is put on the work queue
\* twice; the names ever queued are discovered packages of the tree, so the loop
\* takes at most one turn for each package of the tree, it always has its next
\* step to take, and it is left with the work queue empty.
C1_DiscoveryTerminatesEachOnce ==
    /\ NoDuplicates(depnames_found)
    /\ NoDuplicates(enqueue_log)
    /\ Range(enqueue_log) \subseteq Resolved
    /\ Len(enqueue_log) <= Cardinality(DOMAIN package_name_to_package)
    /\ pc = "discover" => ENABLED (Expand \/ WarnNotFound)
    /\ DiscoveryDone => packages_to_examine = <<>>

\* C1, as a property of whole runs that keep going: a run that enters the
\* discovery loop leaves it, with the work queue empty.
C1_DiscoveryEnds ==
    (pc = "discover") ~> (pc = "declare" /\ packages_to_examine = <<>>)

\* discovery has finished on a graph with a cycle through the target and a
\* package that depends on itself
C1_Witness ==
    /\ DiscoveryDone
    /\ \E p \in Resolved \ {package_name_to_examine} :
          /\ Edge(p, p)
          /\ Edge(package_name_to_examine, p)
          /\ Edge(p, package_name_to_examine)
-----------------------------------------------------------------------------
(* C2 *)

\* C2: with --recurse, a discovered package of the tree has, from the moment it is
\* discovered, the depth that is the length of the shortest dependency path to it
\* from the target over the packages that are not excluded (so its depth never
\* changes and the target has depth 0), and when discovery is finished the
\* discovered packages are exactly the ones such a path reaches.
C2_DepthIsShortestPath ==
    (recurse /\ DiscoveryStarted) =>
        LET layers == Layers
        IN  /\ Resolved \subseteq ReachableIn(layers)
            /\ \A p \in Resolved :
                  package_name_to_package[p].depth = DistanceIn(layers, p)
            /\ package_name_to_package[package_name_to_examine].depth = 0
            /\ DiscoveryDone => Resolved = ReachableIn(layers)

\* discovery with --recurse has finished on a graph in which a package is a
\* direct dependency of the target and also the dependency of another package
\* that was expanded before the end
C2_Witness ==
    /\ recurse
    /\ DiscoveryDone
    /\ \E p, q \in Resolved :
          /\ p # q
          /\ Distance(q) = 1
          /\ Distance(p) = 1
          /\ Edge(q, p)
          /\ Len(enqueue_log) >= 3

-----------------------------------------------------------------------------
(* C6 *)

NoMalformed == \A i \in 1..Len(source_tree) : source_tree[i].meta.kind # "malformed"

ExpectedExit ==
    IF package_name_to_examine \in exclude THEN 1
    ELSE IF package_name_to_examine \notin Declares(source_tree) THEN 2
    ELSE 0

\* C6: when every package.xml parses, a run ends by returning, with exit code 1
\* when the target is in the exclude list, else 2 when the tree declares no package
\* of the target's name, else 0; with the target excluded nothing is scanned, and
\* with exit code 1 or 2 nothing is traversed and no report line is printed.
C6_ExitCodes ==
    NoMalformed =>
        /\ pc = "exit" => (~raised /\ exit_code = ExpectedExit)
        /\ package_name_to_examine \in exclude =>
              (walk_pos = 1 /\ package_name_to_package = EmptyDict)
        /\ ExpectedExit # 0 =>
              (depnames_found = <<>> /\ deps_to_print = <<>> /\ Lines(output) = <<>>)

\* a run has ended with exit code 0 after warning about a dependency that was not
\* found and about a declaration that is missing
C6_Witness ==
    /\ pc = "exit"
    /\ exit_code = 0
    /\ deps_not_found # {}
    /\ \E i \in 1..Len(output) : output[i].what = "could not find quality declaration"

-----------------------------------------------------------------------------
(* C7 *)

\* the packages the target depends on directly
DirectDeps == Graph[package_name_to_examine] \ {package_name_to_examine}

\* the tree of the scenario: R depends on A and B, A on C, nothing else, every
\* declaration has a matching line
Scenario ==
    /\ exclude = {}
    /\ Declares(source_tree) = {"R", "A", "B", "C"}
    /\ DependsOn(source_tree, "R") = {"A", "B"}
    /\ DependsOn(source_tree, "A") = {"C"}
    /\ DependsOn(source_tree, "B") = {}
    /\ DependsOn(source_tree, "C") = {}
    /\ \A i \in 1..Len(source_tree) :
          source_tree[i].qd.exists /\ FirstMatch(source_tree[i].qd.lines) # <<>>

LineNames == {output[i].names[1] : i \in {k \in 1..Len(output) : output[k].kind = "line"}}

\* C7: without --recurse only the target is ever taken off the work queue, and a
\* report line is the target's at depth 0 or that of one of its direct dependencies
\* at depth 1; with --recurse every discovered package of the tree is expanded. On
\* the tree R -> A, B; A -> C the report names R, A and B without --recurse, and
\* with it C as well, at depth 2.
C7_RecurseFlag ==
    /\ (~recurse /\ DiscoveryStarted) =>
          /\ Range(enqueue_log) = {package_name_to_examine}
          /\ \A i \in 1..Len(output) : output[i].kind = "line" =>
                \/ output[i].names[1] = package_name_to_examine /\ output[i].spaces = 0
                \/ output[i].names[1] \in DirectDeps /\ output[i].spaces = 2
    /\ (recurse /\ DiscoveryDone) => Range(Dequeued) = Resolved
    /\ (Finished /\ Scenario) =>
          IF recurse
          THEN /\ LineNames = {"R", "A", "B", "C"}
               /\ \E i \in 1..Len(output) :
                     output[i] = ReportLine(2, "C", FirstMatch(UsualDoc("C"))[1])
          ELSE LineNames = {"R", "A", "B"}

\* a run without --recurse has ended on the tree of the scenario
C7_Witness == Finished /\ Scenario /\ ~recurse

-----------------------------------------------------------------------------
(* C8 *)

\* C8: in what a run prints, no warning comes after a report line, and the warning
\* about dependencies not found is printed at most once.
C8_WarningsBeforeReport ==
    /\ \A i, j \in 1..Len(output) :
          (i < j /\ output[i].kind = "line") => output[j].kind # "warning"
    /\ Cardinality({i \in 1..Len(output) : output[i].what = "could not find dependencies"}) <= 1

\* a run has ended after printing the warning about dependencies not found, a
\* warning about a declaration, and a report line
C8_Witness ==
    /\ pc = "exit"
    /\ \E i \in 1..Len(output) : output[i].what = "could not find dependencies"
    /\ \E i \in 1..Len(output) : output[i].kind = "warning" /\ output[i].what # "could not find dependencies"
    /\ \E i \in 1..Len(output) : output[i].kind = "line"

-----------------------------------------------------------------------------
(* C10 *)

\* the packages below p in the parent/child links
RECURSIVE Descendants(_)
Descendants(p) ==
    LET kids == Range(package_name_to_package[p].children)
    IN  kids \cup UNION {Descendants(k) : k \in kids}

AllDeclared ==
    \A p \in Resolved : Declaration(p).exists /\ FirstMatch(Declaration(p).lines) # <<>>

\* C10: when a run ends and every discovered package of the tree has a declaration
\* with a matching line, the report has one line for each of them and no other, the
\* target's first, each indented by two spaces for each level of its depth, and the
\* lines of the packages below a package follow its line immediately, as one block.
C10_ReportIsPreorder ==
    (Finished /\ AllDeclared) =>
        LET lines == Lines(output)
            name(i) == lines[i].names[1]
        IN  /\ Len(lines) = Cardinality(Resolved)
            /\ {name(i) : i \in 1..Len(lines)} = Resolved
            /\ name(1) = package_name_to_examine
            /\ \A i \in 1..Len(lines) :
                  /\ lines[i].spaces = 2 * package_name_to_package[name(i)].depth
                  /\ Descendants(name(i)) =
                        {name(j) : j \in (i + 1)..(i + Cardinality(Descendants(name(i))))}

\* a report has been printed for a tree in which a package with a child has a
\* sibling
C10_Witness ==
    /\ Finished
    /\ AllDeclared
    /\ \E p, q \in Resolved :
          /\ p # q
          /\ Distance(p) = 1
          /\ Distance(q) = 1
          /\ package_name_to_package[p].children # <<>>

-----------------------------------------------------------------------------
(* C3 *)

\* C3: when a run ends and the declaration of some discovered package is missing,
\* every other discovered package of the tree whose declaration has a matching line
\* has its line in the report, the packages below the one without a declaration
\* included.
C3_MissingDeclarationAffectsOnlyItself ==
    (Finished /\ \E q \in Resolved : ~Declaration(q).exists) =>
        \A p \in Resolved :
            (Declaration(p).exists /\ FirstMatch(Declaration(p).lines) # <<>>) => HasLine(p)

-----------------------------------------------------------------------------
(* C4 *)

\* C4: when a run ends, a discovered package of the tree whose declaration exists
\* and has no matching line has a line in the report, with a level that is none of
\* 1 to 5.
C4_NoLevelReportedUnknown ==
    Finished =>
        \A p \in Resolved :
            (Declaration(p).exists /\ FirstMatch(Declaration(p).lines) = <<>>) =>
                \E i \in 1..Len(output) :
                    /\ output[i].kind = "line"
                    /\ output[i].names = <<p>>
                    /\ output[i].level \notin 1..5

-----------------------------------------------------------------------------
(* C5 *)

\* C5: a package.xml that does not parse does not stop the run: a run on a tree
\* that has one, with the target not excluded, ends by returning 0 or 2.
C5_MalformedMetadataSkipped ==
    (pc = "exit" /\ ~NoMalformed /\ package_name_to_examine \notin exclude) =>
        (~raised /\ exit_code \in {0, 2})

-----------------------------------------------------------------------------
(* C9 *)

\* C9: a second run on the same tree with the same arguments prints what the first
\* run printed.
C9_SameOutputTwice ==
    (run_no = 2 /\ pc = "exit") => output = first_output
====
